---- MODULE Spec2Model ----
(***************************************************************************)
(* Model of proto-qm (src/source/main.cpp): the slider-driven frame loop,  *)
(* the volume shader assembler and the hydrogen wave function compiler.    *)
(*                                                                         *)
(* Numbers.  The program's floats are modelled in decimal fixed point:     *)
(*   - slider values, times and angles in units of 10^-6 (FP),             *)
(*   - screen coordinates (anchorPos, cursorPos) in units of 10^-4 (PP).   *)
(* Window sizes and quantum numbers are plain integers.                    *)
(***************************************************************************)
EXTENDS Integers, Sequences, FiniteSets, TLC

VARIABLES
    pc,       \* position in main(): "start", "loop", "frame", "done", "aborted"
    env,      \* qm::Env env
    prog,     \* qm::Program prog
    rot,      \* frame()'s local_persist Vec2f rot
    prev_delta, \* frame()'s local_persist Vec2f prev_delta
    gl,       \* the GL objects behind the handles (programs, framebuffers)
    frames,   \* number of calls of frame() so far
    last,     \* what the last call of init()/frame()/quit()/addWave() did
    wf,       \* harness of the wave function compiler (SpecWave)
    sh        \* harness of the shader assembler (SpecShader)

vars == <<pc, env, prog, rot, prev_delta, gl, frames, last, wf, sh>>

(***************************************************************************)
(* Bounds of the model and constants of the program                        *)
(***************************************************************************)
MaxFrames == 1

FP == 1000 * 1000           \* fixed point scale of values
PP == 100 * 100             \* fixed point scale of screen coordinates

sliderHeight == 500         \* 0.05 in PP
sliderWidth == 6500         \* 0.65 in PP
Program_maxSliders == 32
Program_maxWaves == 2
maxHPolyTermCount == 30
tau == 6283185              \* 2*pi in FP (math.hpp)

Abs(x) == IF x < 0 THEN -x ELSE x

\* util.hpp CLAMP(v, lo, hi)
CLAMP(v, lo, hi) == IF v < lo THEN lo ELSE IF v > hi THEN hi ELSE v

RECURSIVE Pow10(_)
Pow10(k) == IF k = 0 THEN 1 ELSE 10 * Pow10(k - 1)

\* util.hpp round(v, decimals): to the nearest multiple of 10^-decimals
round(v, decimals) ==
    LET unit == Pow10(6 - decimals)
    IN  ((v + unit \div 2) \div unit) * unit

\* a*b/c without leaving 32 bits (b >= 0, c > 0)
MulDiv(a, b, c) == a * (b \div c) + (a * (b % c)) \div c

\* float -> int conversion (truncation toward zero) of a fixed point value
ToInt(v) == IF v >= 0 THEN v \div FP ELSE -((-v) \div FP)

(***************************************************************************)
(* Slider                                                                  *)
(***************************************************************************)
\* A slider; value is the bound field: wave = 0 for a field of prog itself,
\* wave = k for a field of prog.waves[k]
Slider(title, min, max, wave, field, decimals, recompile) ==
    [title |-> title, min |-> min, max |-> max,
     value |-> [wave |-> wave, field |-> field],
     decimals |-> decimals, recompile |-> recompile]

\* *s.value
Deref(p, ref) ==
    IF ref.wave = 0 THEN p[ref.field] ELSE p.waves[ref.wave][ref.field]

\* *s.value= v
Assign(p, ref, v) ==
    IF ref.wave = 0
    THEN [p EXCEPT ![ref.field] = v]
    ELSE [p EXCEPT !.waves[ref.wave][ref.field] = v]

\* Slider::top(i), Slider::bottom(i); i counts from 0
top(i) == PP - i * sliderHeight
bottom(i) == top(i + 1)

\* Slider::pointInside(i, p)
pointInside(i, p) ==
    /\ p[1] >= -PP
    /\ p[1] < sliderWidth - PP
    /\ p[2] > bottom(i)
    /\ p[2] < top(i)

\* Slider::coordToValue(x) without the clamp
coordToValue_noClamp(s, x) ==
    round(MulDiv(PP + x, s.max - s.min, sliderWidth) + s.min, s.decimals)

\* Slider::coordToValue(x)
coordToValue(s, x) ==
    LET v == CLAMP(MulDiv(PP + x, s.max - s.min, sliderWidth) + s.min,
                   s.min, s.max)
    IN  round(v, s.decimals)

(***************************************************************************)
(* GL objects (gl.hpp): the programs and framebuffers behind the handles   *)
(***************************************************************************)
NoGl == [programs |-> {}, nextProg |-> 0, fbos |-> {}, nextFbo |-> 0,
         fboDestroyed |-> 0, errors |-> {}, peakVolume |-> 0, compiles |-> 0]

LiveVolume(g) == {q \in g.programs : q.kind = "volume"}

\* createGlShaderProgram: a new program object compiled from src
createGlShaderProgram(g, kind, src) ==
    LET id == g.nextProg + 1
        g1 == [g EXCEPT !.programs = @ \cup {[id |-> id, kind |-> kind, src |-> src]},
                        !.nextProg = id]
        n  == Cardinality(LiveVolume(g1))
    IN  [g1 EXCEPT !.peakVolume = IF n > @ THEN n ELSE @]

\* destroyGlShaderProgram: deleting a handle that names no live program is an error
destroyGlShaderProgram(g, id) ==
    IF \E q \in g.programs : q.id = id
    THEN [g EXCEPT !.programs = {q \in @ : q.id # id}]
    ELSE [g EXCEPT !.errors = @ \cup {"destroyed a program that is not live"}]

\* createFbo(reso, filtering)
createFbo(g, reso, filtering) ==
    LET id == g.nextFbo + 1
    IN  [gl  |-> [g EXCEPT !.fbos = @ \cup {id}, !.nextFbo = id],
         fbo |-> [fboId |-> id, texId |-> id, reso |-> reso, filtering |-> filtering]]

\* destroyFbo(fbo)
destroyFbo(g, fbo) ==
    IF fbo.fboId \in g.fbos
    THEN [g EXCEPT !.fbos = @ \ {fbo.fboId}, !.fboDestroyed = @ + 1]
    ELSE [g EXCEPT !.errors = @ \cup {"destroyed a framebuffer that is not live"}]

(***************************************************************************)
(* Formula compiler: the quantum number clamp of hydrogenWaveFuncStr       *)
(***************************************************************************)
\* the clamp without its first step (l is left above n - 1)
hydrogenWaveFuncStr_noLClamp(n, l, m, phase) ==
    LET m1 == IF m > 0 /\ m > l THEN l ELSE m
        m2 == IF m1 < 0 /\ m1 < -l THEN -l ELSE m1
    IN  [ok |-> n > 0 /\ l >= 0 /\ n - l < maxHPolyTermCount
                /\ l - 1 < maxHPolyTermCount,
         amplitude |-> [n |-> n, l |-> l, m |-> m2],
         phase_str |-> [m |-> m2, phase |-> phase]]

\* hydrogenWaveFuncStr(n, l, m, phase, amplitude, phase_str): ok is false when
\* one of its assertions fails; the strings are given by the numbers they are
\* generated from (AmplitudeStr below is the generated amplitude expression)
hydrogenWaveFuncStr(n, l, m, phase) ==
    LET l1 == IF l > n - 1 THEN n - 1 ELSE l
        m1 == IF m > 0 /\ m > l1 THEN l1 ELSE m
        m2 == IF m1 < 0 /\ m1 < -l1 THEN -l1 ELSE m1
    IN  [ok |-> n > 0 /\ l >= 0 /\ n - l1 < maxHPolyTermCount
                /\ l1 - 1 < maxHPolyTermCount,
         amplitude |-> [n |-> n, l |-> l1, m |-> m2],
         phase_str |-> [m |-> m2, phase |-> phase]]

\* the assertions of createHWaveFunc(n, l, m, phase, bohr_radius)
createHWaveFunc_asserts(n, l, m) ==
    /\ n > 0 /\ l >= 0
    /\ Abs(n) > Abs(l)
    /\ Abs(l) >= Abs(m)
    /\ n - l < maxHPolyTermCount
    /\ l - 1 < maxHPolyTermCount

(***************************************************************************)
(* Orbital model and the generated amplitude expression                    *)
(***************************************************************************)
Sign(x) == IF x > 0 THEN 1 ELSE IF x < 0 THEN -1 ELSE 0

RECURSIVE IntPow(_, _)
IntPow(x, k) == IF k = 0 THEN 1 ELSE x * IntPow(x, k - 1)

RECURSIVE fact(_)
fact(k) == IF k <= 1 THEN 1 ELSE k * fact(k - 1)

RECURSIVE Binom(_, _)
Binom(a, b) ==
    IF b < 0 \/ b > a THEN 0
    ELSE IF b = 0 THEN 1 ELSE (Binom(a, b - 1) * (a - b + 1)) \div b

PolyIndex == 0..(maxHPolyTermCount - 1)

\* math.hpp laguerre(coeff, k, alpha): the coefficients of the generalized
\* Laguerre polynomial L(k, alpha, x), each a fraction <<numerator, denominator>>
laguerre(k, alpha) ==
    [i \in PolyIndex |->
        IF i <= k THEN << IntPow(-1, i) * Binom(k + alpha, k - i), fact(i) >>
        ELSE << 0, 1 >>]

\* math.hpp sphericalHarmonics(coeff, l, m): the coefficients of cos(theta)^i in
\* the polynomial part of Y(l, m), up to a common factor
sphericalHarmonics(l, m) ==
    [i \in PolyIndex |->
        IF i <= l - Abs(m) /\ (l - Abs(m) - i) % 2 = 0
        THEN LET k == (l - Abs(m) - i) \div 2
             IN  IntPow(-1, k) * Binom(l, k) * Binom(2 * l - 2 * k, l)
                               * Binom(l - 2 * k, Abs(m))
        ELSE 0]

\* the argument of the normalization: sqrt(pow(2.0/(n*a0), 3)*fact(n - l - 1)
\* /(2*n*fact(n + l))), kept as the numbers that go into it
Normalization(n, l, a0) ==
    [cubed |-> << 2, n * a0 >>, factNum |-> n - l - 1, den |-> << 2 * n, n + l >>]

\* createHWaveFunc(n, l, m, phase, bohr_radius); ok is false when an assertion fails
createHWaveFunc(n, l, m, phase, bohr_radius) ==
    IF ~createHWaveFunc_asserts(n, l, m) THEN [ok |-> FALSE]
    ELSE [ok |-> TRUE, n |-> n, l |-> l, m |-> m, phase |-> phase,
          a0 |-> bohr_radius,
          normalization |-> Normalization(n, l, bohr_radius),
          laguerreCoeff |-> laguerre(n - l - 1, 2 * l + 1),
          spheCoeff |-> sphericalHarmonics(l, m)]

\* value(w, r, theta, phi): the factors of the amplitude and the phase it computes
value(w) ==
    [C |-> w.normalization,
     E |-> [rho |-> << 2, w.n * 1 >>, exp |-> w.l],
     L |-> w.laguerreCoeff,
     sinExp |-> w.m,
     Y |-> w.spheCoeff,
     phase |-> [m |-> w.m, phase |-> w.phase]]

\* printf("%e") of num/den, for 0.1 <= num/den < 10: seven digits and an exponent
FormatE(num, den) ==
    IF num >= den
    THEN [digits |-> (2 * num * Pow10(6) + den) \div (2 * den), e |-> 0]
    ELSE [digits |-> (2 * num * Pow10(7) + den) \div (2 * den), e |-> -1]

\* no sign factor on any power
SignFactor_never(k) == "1.0"

\* the factor written in front of pow(abs(x), k)
SignFactor(k) == IF k % 2 # 0 THEN "sign" ELSE "1.0"

RECURSIVE LaguerreTerms(_, _, _)
LaguerreTerms(coeff, rho_str, i) ==
    IF i >= maxHPolyTermCount THEN <<>>
    ELSE IF coeff[i][1] = 0 THEN LaguerreTerms(coeff, rho_str, i + 1)
    ELSE << [coef |-> coeff[i],
             pow |-> IF i # 0 THEN << [base |-> rho_str, exp |-> i] >> ELSE <<>>] >>
         \o LaguerreTerms(coeff, rho_str, i + 1)

RECURSIVE SphericalTerms(_, _)
SphericalTerms(coeff, i) ==
    IF i >= maxHPolyTermCount THEN <<>>
    ELSE IF coeff[i] = 0 THEN SphericalTerms(coeff, i + 1)
    ELSE << [coef |-> coeff[i],
             pow |-> IF i # 0
                     THEN << [factor |-> SignFactor(i), base |-> "cos_theta",
                              exp |-> i] >>
                     ELSE <<>>] >>
         \o SphericalTerms(coeff, i + 1)

\* the amplitude expression hydrogenWaveFuncStr writes for its clamped n, l, m
AmplitudeStr(n, l, m) ==
    LET rho_str == FormatE(2, n)
    IN  [C |-> [normalization |-> Normalization(n, l, 1), brightness |-> n],
         E |-> [rho |-> rho_str, exp |-> l],
         L |-> LaguerreTerms(laguerre(n - l - 1, 2 * l + 1), rho_str, 0),
         sin |-> IF m # 0
                 THEN << [factor |-> SignFactor(Abs(m)), base |-> "sin_theta",
                          exp |-> Abs(m)] >>
                 ELSE <<>>,
         Y |-> SphericalTerms(sphericalHarmonics(l, m), 0)]

(***************************************************************************)
(* Shader assembler                                                        *)
(***************************************************************************)
RECURSIVE PowMod(_, _, _)
PowMod(b, e, n) == IF e = 0 THEN 1 % n ELSE (b * PowMod(b, e - 1, n)) % n

\* Whether the float nearest to 1/den lies above 1/den, for 2^-(k+1) <= 1/den < 2^-k:
\* floats there are multiples of 2^-(k+24), and 2^(k+24)/den is rounded to nearest
Float32Above(den, k) == 2 * PowMod(2, k + 24, den) > den

\* waves[i].amplitude <= 0.001 when compared as reals
amplitudeSkipped_real(a) == a * 1000 <= FP

\* waves[i].amplitude <= 0.001: a float against a double constant.  Values of
\* the model are at least 10^-6 apart, float rounding moves them by less than
\* 10^-9, so only the float of 0.001 itself needs its rounding direction
\* (2^-10 <= 0.001 < 2^-9)
amplitudeSkipped(a) ==
    \/ a * 1000 < FP
    \/ a * 1000 = FP /\ ~Float32Above(1000, 9)

\* statements that keep one pair of sums per particle tag
WaveStatements_perParticle(i, w) ==
    LET f == hydrogenWaveFuncStr(ToInt(w.n), ToInt(w.l), ToInt(w.m), w.phase)
    IN  [wave |-> i, translation |-> w.translation,
         a |-> f.amplitude, p |-> f.phase_str, weight |-> w.amplitude,
         real |-> IF w.particle = 0 THEN "total_real" ELSE "total_real_1",
         imag |-> IF w.particle = 0 THEN "total_imag" ELSE "total_imag_1"]

\* one wave's statements of CALC_TOTAL_WAVEFUNC
WaveStatements(i, w) ==
    LET f == hydrogenWaveFuncStr(ToInt(w.n), ToInt(w.l), ToInt(w.m), w.phase)
    IN  [wave |-> i, translation |-> w.translation,
         a |-> f.amplitude, p |-> f.phase_str, weight |-> w.amplitude,
         real |-> "total_real", imag |-> "total_imag"]

\* the loop that builds calc_total_wavefunc_define
RECURSIVE CalcTotalWavefunc(_, _)
CalcTotalWavefunc(waves, i) ==
    IF i > Len(waves) THEN <<>>
    ELSE IF amplitudeSkipped(waves[i].amplitude)
         THEN CalcTotalWavefunc(waves, i + 1)
         ELSE <<WaveStatements(i - 1, waves[i])>> \o CalcTotalWavefunc(waves, i + 1)

\* what fs_template_src does with the accumulated sums
fs_template_src ==
    [total_amplitude |-> <<"total_real", "total_real", "total_imag", "total_imag">>]

\* the source createVolumeShader compiles
VolumeSource(sample_count, complex_color, absorption, cutoff, waves) ==
    [SAMPLE_COUNT |-> sample_count,
     COMPLEX_COLOR |-> IF complex_color THEN 1 ELSE 0,
     ABSORPTION_MUL |-> absorption,
     CUTOFF |-> cutoff,
     CALC_TOTAL_WAVEFUNC |-> CalcTotalWavefunc(waves, 1)]

\* createVolumeShader(sample_count, complex_color, absorption, cutoff, waves,
\* wave_count): ok is false when an assertion fails
createVolumeShader(g, sample_count, complex_color, absorption, cutoff, waves) ==
    LET ok == /\ Len(waves) > 0
              /\ \A i \in 1..Len(waves) :
                    hydrogenWaveFuncStr(ToInt(waves[i].n), ToInt(waves[i].l),
                                        ToInt(waves[i].m), waves[i].phase).ok
        g0 == [g EXCEPT !.compiles = @ + 1]
        g1 == createGlShaderProgram(g0, "volume",
                VolumeSource(sample_count, complex_color, absorption, cutoff, waves))
    IN  IF ok THEN [ok |-> TRUE, gl |-> g1, shd |-> [prog |-> g1.nextProg]]
        ELSE [ok |-> FALSE, gl |-> g0, shd |-> [prog |-> 0]]

\* the call of createVolumeShader in init() and frame(), on the fields of prog
CompileVolume(g, p) ==
    createVolumeShader(g, ToInt(p.sampleCount), p.complexColor # 0,
                       p.absorption, p.cutoff, p.waves)

(***************************************************************************)
(* Program state: addWave, init, quit                                      *)
(***************************************************************************)
\* util.hpp push(StackArray<T, N>&, v): fails, changing nothing, when the array is full
push(arr, cap, v) ==
    IF Len(arr) < cap THEN [ok |-> TRUE, arr |-> Append(arr, v)]
    ELSE [ok |-> FALSE, arr |-> arr]

\* pushes one after the other, stopping at the first that fails
RECURSIVE pushAll(_, _, _)
pushAll(arr, cap, vs) ==
    IF vs = <<>> THEN [ok |-> TRUE, arr |-> arr]
    ELSE LET r == push(arr, cap, Head(vs))
         IN  IF r.ok THEN pushAll(r.arr, cap, Tail(vs)) ELSE r

\* the sliders of addWave with the "Complex phase" slider not flagged
WaveSliders_phaseUnflagged(k) ==
    << Slider("Amplitude", 0, 2 * FP, k, "amplitude", 3, TRUE),
       Slider("Complex phase", 0, tau, k, "phase", 3, FALSE),
       Slider("n", 1 * FP, 12 * FP, k, "n", 0, TRUE),
       Slider("l", 0, 11 * FP, k, "l", 0, TRUE),
       Slider("m", -11 * FP, 11 * FP, k, "m", 0, TRUE),
       Slider("translation", -5 * FP, 5 * FP, k, "translation", 3, TRUE) >>

\* the six sliders addWave binds to wave k
WaveSliders(k) ==
    << Slider("Amplitude", 0, 2 * FP, k, "amplitude", 3, TRUE),
       Slider("Complex phase", 0, tau, k, "phase", 3, TRUE),
       Slider("n", 1 * FP, 12 * FP, k, "n", 0, TRUE),
       Slider("l", 0, 11 * FP, k, "l", 0, TRUE),
       Slider("m", -11 * FP, 11 * FP, k, "m", 0, TRUE),
       Slider("translation", -5 * FP, 5 * FP, k, "translation", 3, TRUE) >>

\* the wave addWave pushes
NewWave(p) ==
    [amplitude |-> IF Len(p.waves) = 0 THEN 1 * FP ELSE 0,
     phase |-> 0, n |-> 1 * FP, l |-> 0, m |-> 0, translation |-> 0,
     particle |-> 0]

\* addWave with the sliders pushed before the wave
addWave_slidersFirst(p) ==
    LET k  == Len(p.waves) + 1
        rs == pushAll(p.sliders, Program_maxSliders, WaveSliders(k))
        p1 == [p EXCEPT !.sliders = rs.arr]
        rw == push(p1.waves, Program_maxWaves, NewWave(p))
    IN  IF ~rs.ok THEN [ok |-> FALSE, prog |-> p1]
        ELSE [ok |-> rw.ok, prog |-> [p1 EXCEPT !.waves = rw.arr]]

\* addWave(prog): ok is false when a push failed; prog is what was written until then
addWave(p) ==
    LET rw == push(p.waves, Program_maxWaves, NewWave(p))
        p1 == [p EXCEPT !.waves = rw.arr]
        rs == pushAll(p1.sliders, Program_maxSliders, WaveSliders(Len(p1.waves)))
    IN  IF ~rw.ok THEN [ok |-> FALSE, prog |-> p]
        ELSE [ok |-> rs.ok, prog |-> [p1 EXCEPT !.sliders = rs.arr]]

\* default_sliders of init()
default_sliders ==
    << Slider("Time", 0, 5 * FP, 0, "phase", 3, FALSE),
       Slider("Samples", 5 * FP, 150 * FP, 0, "sampleCount", 0, TRUE),
       Slider("Resolution", FP \div 100, 1 * FP, 0, "resoMul", 2, FALSE),
       Slider("Filtering", 0, 1 * FP, 0, "filtering", 0, FALSE),
       Slider("R", 0, 2 * FP, 0, "r", 3, FALSE),
       Slider("G", 0, 2 * FP, 0, "g", 3, FALSE),
       Slider("B", 0, 2 * FP, 0, "b", 3, FALSE),
       Slider("Complex color", 0, 1 * FP, 0, "complexColor", 0, TRUE),
       Slider("Absorption", 0, 1 * FP, 0, "absorption", 3, TRUE),
       Slider("Cutoff", 0, (15 * FP) \div 100, 0, "cutoff", 4, TRUE),
       Slider("Distance", FP \div 5, 150 * FP, 0, "distance", 4, FALSE) >>

\* Program prog= {}
ZeroProgram ==
    [shader |-> [prog |-> 0],
     fbo |-> [fboId |-> 0, texId |-> 0, reso |-> <<0, 0>>, filtering |-> FALSE],
     guiShader |-> [prog |-> 0],
     time |-> 0, phase |-> 0, sampleCount |-> 0, resoMul |-> 0, filtering |-> 0,
     r |-> 0, g |-> 0, b |-> 0, complexColor |-> 0, absorption |-> 0,
     cutoff |-> 0, distance |-> 0,
     waves |-> <<>>, sliders |-> <<>>]

\* the values init() gives the fields of prog
InitialFields(p) ==
    [p EXCEPT !.time = 0, !.phase = 0, !.sampleCount = 40 * FP,
              !.resoMul = FP \div 2, !.filtering = 0,
              !.r = 1 * FP, !.g = (6 * FP) \div 10, !.b = (4 * FP) \div 10,
              !.complexColor = 0, !.absorption = 0, !.cutoff = 0,
              !.distance = 2 * FP]

\* cast<Vec2i>(cast<Vec2f>(winSize)*resoMul)
VolumeReso(winSize, resoMul) ==
    << (winSize[1] * resoMul) \div FP, (winSize[2] * resoMul) \div FP >>

\* what a call left behind, for the properties to read
NoLast ==
    [op |-> "none", ok |-> TRUE, compiledFor |-> {}, hover |-> {},
     old |-> <<>>, new |-> <<>>, edited |-> {}, activity |-> FALSE,
     glBefore |-> NoGl, progBefore |-> <<>>,
     drawA |-> [fbo |-> 0, reso |-> <<0, 0>>, filtering |-> FALSE, shader |-> 0]]

\* init(env, prog), the part that sets up the program state and its GL objects
init(g, p, winSize) ==
    LET g1 == createGlShaderProgram(g, "gui", [fs |-> "gui"])
        p1 == [InitialFields(p) EXCEPT !.guiShader = [prog |-> g1.nextProg]]
        rs == pushAll(p1.sliders, Program_maxSliders, default_sliders)
        p2 == [p1 EXCEPT !.sliders = rs.arr]
        a1 == addWave(p2)
        a2 == addWave(a1.prog)
        c  == CompileVolume(g1, a2.prog)
        f  == createFbo(c.gl, VolumeReso(winSize, a2.prog.resoMul),
                        a2.prog.filtering * 2 > FP)
    IN  IF ~(rs.ok /\ a1.ok /\ a2.ok /\ c.ok)
        THEN [ok |-> FALSE, gl |-> g1, prog |-> a2.prog]
        ELSE [ok |-> TRUE, gl |-> f.gl,
              prog |-> [a2.prog EXCEPT !.shader = c.shd, !.fbo = f.fbo]]

\* quit(env, prog)
quit(g, p) ==
    LET g1 == destroyFbo(g, p.fbo)
        g2 == destroyGlShaderProgram(g1, p.shader.prog)
    IN  destroyGlShaderProgram(g2, p.guiShader.prog)

(***************************************************************************)
(* frame                                                                   *)
(***************************************************************************)
\* a recompilation that makes the new program before it destroys the old one
Recompile_createFirst(g, p) ==
    LET c == CompileVolume(g, p)
    IN  [c EXCEPT !.gl = destroyGlShaderProgram(c.gl, p.shader.prog)]

\* the recompilation of frame(): the old program is destroyed, then the new one made
Recompile(g, p) ==
    CompileVolume(destroyGlShaderProgram(g, p.shader.prog), p)

\* the body of the slider loop, recompiling on any changed value
SliderEdit_ignoreFlag(st, e, i, s, oldv, newv) ==
    LET value_changed == e.lmbDown /\ newv # oldv
        p1  == IF e.lmbDown THEN Assign(st.prog, s.value, newv) ELSE st.prog
        st1 == [st EXCEPT !.prog = p1,
                          !.hover = @ \cup {i},
                          !.activity = TRUE,
                          !.old = (i :> oldv) @@ @,
                          !.new = (i :> newv) @@ @,
                          !.edited = IF e.lmbDown THEN @ \cup {i} ELSE @]
    IN  IF value_changed
        THEN LET c == CHOOSE x \in {Recompile(st.gl, p1)} : TRUE
             IN  [st1 EXCEPT !.ok = c.ok,
                             !.gl = c.gl,
                             !.prog = [p1 EXCEPT !.shader = c.shd],
                             !.compiledFor = @ \cup {i}]
        ELSE st1

\* the body of the slider loop for a slider under the anchor
SliderEdit(st, e, i, s, oldv, newv) ==
    LET value_changed == e.lmbDown /\ newv # oldv
        p1  == IF e.lmbDown THEN Assign(st.prog, s.value, newv) ELSE st.prog
        st1 == [st EXCEPT !.prog = p1,
                          !.hover = @ \cup {i},
                          !.activity = TRUE,
                          !.old = (i :> oldv) @@ @,
                          !.new = (i :> newv) @@ @,
                          !.edited = IF e.lmbDown THEN @ \cup {i} ELSE @]
    IN  IF value_changed /\ s.recompile
        THEN LET c == CHOOSE x \in {Recompile(st.gl, p1)} : TRUE
             IN  [st1 EXCEPT !.ok = c.ok,
                             !.gl = c.gl,
                             !.prog = [p1 EXCEPT !.shader = c.shd],
                             !.compiledFor = @ \cup {i}]
        ELSE st1

\* one iteration of the slider loop of frame(), for slider i (counted from 1)
SliderStep(st, e, i) ==
    IF ~st.ok \/ ~pointInside(i - 1, e.anchorPos) THEN st
    ELSE SliderEdit(st, e, i, st.prog.sliders[i],
                    Deref(st.prog, st.prog.sliders[i].value),
                    coordToValue(st.prog.sliders[i], e.cursorPos[1]))

RECURSIVE SliderLoop(_, _, _)
SliderLoop(st, e, i) ==
    IF i > Len(st.prog.sliders) THEN st
    ELSE SliderLoop(SliderStep(st, e, i), e, i + 1)

Half(x) == IF x >= 0 THEN x \div 2 ELSE -((-x) \div 2)

\* the camera rotation of frame() without the clamp of rot.y
Rotate_noClamp(r, pd, e, slider_activity) ==
    IF e.lmbDown /\ ~slider_activity
    THEN LET smooth_delta == << Half(pd[1]) + Half(e.cursorDelta[1]),
                                Half(pd[2]) + Half(e.cursorDelta[2]) >>
         IN  << << r[1] + smooth_delta[1] * 2, r[2] + smooth_delta[2] * 2 >>,
                smooth_delta >>
    ELSE << r, pd >>

\* the camera rotation of frame(): <<rot, prev_delta>> after it
Rotate(r, pd, e, slider_activity) ==
    IF e.lmbDown /\ ~slider_activity
    THEN LET smooth_delta == << Half(pd[1]) + Half(e.cursorDelta[1]),
                                Half(pd[2]) + Half(e.cursorDelta[2]) >>
         IN  << << r[1] + smooth_delta[1] * 2,
                   CLAMP(r[2] + smooth_delta[2] * 2, -(tau \div 4), tau \div 4) >>,
                smooth_delta >>
    ELSE << r, pd >>

\* "Adjust FBO to resolution and filtering settings", comparing the resolution only
AdjustFbo_resoOnly(g, p, e) ==
    LET volume_reso == VolumeReso(e.winSize, p.resoMul)
        volume_filtering == p.filtering * 2 > FP
        f == createFbo(destroyFbo(g, p.fbo), volume_reso, volume_filtering)
    IN  IF volume_reso # p.fbo.reso
        THEN [gl |-> f.gl, fbo |-> f.fbo]
        ELSE [gl |-> g, fbo |-> p.fbo]

\* "Adjust FBO to resolution and filtering settings" of frame()
AdjustFbo(g, p, e) ==
    LET volume_reso == VolumeReso(e.winSize, p.resoMul)
        volume_filtering == p.filtering * 2 > FP
        f == createFbo(destroyFbo(g, p.fbo), volume_reso, volume_filtering)
    IN  IF volume_reso # p.fbo.reso \/ volume_filtering # p.fbo.filtering
        THEN [gl |-> f.gl, fbo |-> f.fbo]
        ELSE [gl |-> g, fbo |-> p.fbo]

\* frame() after its slider loop has left st
FrameRest(st, rr, a, g, p) ==
    [ok |-> st.ok,
     gl |-> IF st.ok THEN a.gl ELSE st.gl,
     prog |-> IF st.ok THEN [st.prog EXCEPT !.fbo = a.fbo] ELSE st.prog,
     rot |-> rr[1],
     prev_delta |-> rr[2],
     last |-> [op |-> "frame", ok |-> st.ok, compiledFor |-> st.compiledFor,
               hover |-> st.hover, old |-> st.old, new |-> st.new,
               edited |-> st.edited, activity |-> st.activity,
               glBefore |-> g, progBefore |-> [fbo |-> p.fbo],
               \* "Draw volume": glBindFramebuffer, glViewport, glUseProgram
               drawA |-> [fbo |-> a.fbo.fboId, reso |-> a.fbo.reso,
                          filtering |-> a.fbo.filtering,
                          shader |-> st.prog.shader.prog]]]

\* frame(env, prog)
frame(g, p, r, pd, e) ==
    LET st == CHOOSE x \in {SliderLoop(
                  [ok |-> TRUE,
                   prog |-> [p EXCEPT !.time = @ + e.dt, !.phase = @ + e.dt],
                   gl |-> g, hover |-> {}, activity |-> FALSE,
                   old |-> <<>>, new |-> <<>>, edited |-> {},
                   compiledFor |-> {}],
                  e, 1)} : TRUE
    IN  FrameRest(st, Rotate(r, pd, e, st.activity),
                  CHOOSE x \in {AdjustFbo(st.gl, st.prog, e)} : TRUE, g, p)

(***************************************************************************)
(* The environment (env.hpp): what envInit and envUpdate may report        *)
(***************************************************************************)
WinSizes == { <<640, 480>>, <<800, 600>> }
FrameDt == 16667

\* anchors: the middle of every slider row the program can have, the line
\* between the first two rows, a point right of the sliders, a point below
AnchorPoints ==
    { << -(sliderWidth \div 2) - (PP - sliderWidth), top(i) - sliderHeight \div 2 >>
        : i \in 0..(11 + 6 * Program_maxWaves - 1) }
    \cup { << -PP, bottom(0) >>, << 0, top(0) - sliderHeight \div 2 >>,
           << -PP, -PP + 1 >> }

\* cursor x: left of the sliders, 0.0003 and half way into them, right of them
CursorXs == { -12000, -9997, -6750, -3000 }

CursorDeltas == { <<0, 0>>, <<300000, 2000000>>, <<-300000, -2000000>> }

\* pointer samples: drags and hovers at every anchor, rotations off the sliders
PointerInputs ==
    { [anchorPos |-> a, cursorPos |-> <<x, a[2]>>, cursorDelta |-> <<300000, 2000000>>,
       lmbDown |-> TRUE] : a \in AnchorPoints, x \in CursorXs }
    \cup { [anchorPos |-> a, cursorPos |-> a, cursorDelta |-> <<300000, 2000000>>,
            lmbDown |-> FALSE] : a \in AnchorPoints }
    \cup { [anchorPos |-> <<0, 0>>, cursorPos |-> <<0, 0>>, cursorDelta |-> d,
            lmbDown |-> TRUE] : d \in CursorDeltas }

\* Env env= {}
ZeroEnv ==
    [winSize |-> <<0, 0>>, dt |-> 0, anchorPos |-> <<0, 0>>, cursorPos |-> <<0, 0>>,
     cursorDelta |-> <<0, 0>>, lmbDown |-> FALSE, quitRequested |-> FALSE]

(***************************************************************************)
(* main                                                                    *)
(***************************************************************************)
NoWf == [stage |-> "off"]
NoSh == [stage |-> "off"]

Init ==
    /\ pc = "start"
    /\ env = ZeroEnv
    /\ prog = ZeroProgram
    /\ rot = <<0, 0>>
    /\ prev_delta = <<0, 0>>
    /\ gl = NoGl
    /\ frames = 0
    /\ last = NoLast
    /\ wf = NoWf
    /\ sh = NoSh

\* qm::init(env, prog)
InitProg ==
    /\ pc = "start"
    /\ \E w \in WinSizes :
         \E r \in {init(gl, prog, w)} :
             /\ env' = [env EXCEPT !.winSize = w]
             /\ prog' = r.prog
             /\ gl' = r.gl
             /\ pc' = IF r.ok THEN "loop" ELSE "aborted"
             /\ last' = [NoLast EXCEPT !.op = "init", !.ok = r.ok]
    /\ UNCHANGED <<rot, prev_delta, frames, wf, sh>>

\* qm::envUpdate(env), entered when the loop test finds quitRequested false
EnvUpdate ==
    /\ pc = "loop"
    /\ ~env.quitRequested
    /\ frames < MaxFrames
    /\ \E w \in WinSizes, q \in BOOLEAN, i \in PointerInputs :
         env' = [winSize |-> w, dt |-> FrameDt, anchorPos |-> i.anchorPos,
                 cursorPos |-> i.cursorPos, cursorDelta |-> i.cursorDelta,
                 lmbDown |-> i.lmbDown, quitRequested |-> q]
    /\ pc' = "frame"
    /\ last' = [NoLast EXCEPT !.op = "envUpdate"]
    /\ UNCHANGED <<prog, rot, prev_delta, gl, frames, wf, sh>>

\* qm::frame(env, prog)
Frame ==
    /\ pc = "frame"
    /\ \E r \in {frame(gl, prog, rot, prev_delta, env)} :
           /\ prog' = r.prog
           /\ gl' = r.gl
           /\ rot' = r.rot
           /\ prev_delta' = r.prev_delta
           /\ last' = r.last
           /\ pc' = IF r.ok THEN "loop" ELSE "aborted"
    /\ frames' = frames + 1
    /\ UNCHANGED <<env, wf, sh>>

\* qm::quit(env, prog), entered when the loop test finds quitRequested true
Quit ==
    /\ pc = "loop"
    /\ env.quitRequested
    /\ gl' = quit(gl, prog)
    /\ pc' = "done"
    /\ last' = [NoLast EXCEPT !.op = "quit", !.glBefore = gl]
    /\ UNCHANGED <<env, prog, rot, prev_delta, frames, wf, sh>>

Next == InitProg \/ EnvUpdate \/ Frame \/ Quit

Spec == Init /\ [][Next]_vars

(***************************************************************************)
(* Slider edits on their own: one frame() after init(), for a dense set of *)
(* cursor positions on every slider                                        *)
(***************************************************************************)
SliderAnchors ==
    { << -(sliderWidth \div 2) - (PP - sliderWidth), top(i) - sliderHeight \div 2 >>
        : i \in 0..(11 + 6 * Program_maxWaves - 1) }

DenseXs == { -10500 + 25 * k : k \in 0..320 }

InitEdit ==
    /\ pc = "frame"
    /\ \E w \in WinSizes :
         /\ prog = init(NoGl, ZeroProgram, w).prog
         /\ gl = init(NoGl, ZeroProgram, w).gl
         /\ env \in { [winSize |-> w, dt |-> FrameDt, anchorPos |-> a,
                       cursorPos |-> <<x, a[2]>>, cursorDelta |-> <<0, 0>>,
                       lmbDown |-> TRUE, quitRequested |-> FALSE]
                      : a \in SliderAnchors, x \in DenseXs }
    /\ rot = <<0, 0>>
    /\ prev_delta = <<0, 0>>
    /\ frames = 0
    /\ last = [NoLast EXCEPT !.op = "init"]
    /\ wf = NoWf
    /\ sh = NoSh

SpecEdit == InitEdit /\ [][Frame]_vars

(***************************************************************************)
(* The formula compiler and the orbital model on their own: every n, l, m  *)
(* the wave sliders can hold, compiled and then given to createHWaveFunc   *)
(***************************************************************************)
SampleBases == -2..2
SamplePhases == { 0, tau \div 2 }

InitWave ==
    /\ pc = "start"
    /\ env = ZeroEnv
    /\ prog = ZeroProgram
    /\ rot = <<0, 0>>
    /\ prev_delta = <<0, 0>>
    /\ gl = NoGl
    /\ frames = 0
    /\ last = NoLast
    /\ sh = NoSh
    /\ wf \in { [stage |-> "input", n |-> n, l |-> l, m |-> m, phase |-> ph, x |-> x]
                : n \in 1..12, l \in 0..11, m \in -11..11,
                  ph \in SamplePhases, x \in SampleBases }

\* hydrogenWaveFuncStr(n, l, m, phase, &amplitude, &phase_str)
CompileWave ==
    /\ wf.stage = "input"
    /\ \E f \in {hydrogenWaveFuncStr(wf.n, wf.l, wf.m, wf.phase)} :
         wf' = [stage |-> "compiled", n |-> wf.n, l |-> wf.l, m |-> wf.m,
                phase |-> wf.phase, x |-> wf.x, f |-> f,
                str |-> IF f.ok
                        THEN AmplitudeStr(f.amplitude.n, f.amplitude.l, f.amplitude.m)
                        ELSE <<>>]
    /\ UNCHANGED <<pc, env, prog, rot, prev_delta, gl, frames, last, sh>>

\* createHWaveFunc on the numbers the formula compiler clamped to
CreateOrbital ==
    /\ wf.stage = "compiled"
    /\ wf.f.ok
    /\ wf' = [stage |-> "created", n |-> wf.n, l |-> wf.l, m |-> wf.m,
              phase |-> wf.phase, x |-> wf.x, f |-> wf.f, str |-> wf.str,
              w |-> createHWaveFunc(wf.f.amplitude.n, wf.f.amplitude.l,
                                    wf.f.amplitude.m, wf.phase, 1)]
    /\ UNCHANGED <<pc, env, prog, rot, prev_delta, gl, frames, last, sh>>

NextWave == CompileWave \/ CreateOrbital

SpecWave == InitWave /\ [][NextWave]_vars

(***************************************************************************)
(* The shader assembler on its own: createVolumeShader on a wave list and  *)
(* on the same list with other particle tags                               *)
(***************************************************************************)
SampleAmplitudes == { 0, 999, 1000, 1001, FP }
SampleNumbers == { <<1, 0, 0>>, <<2, 1, -1>>, <<3, 5, 7>> }
SampleTags == { 0, 1 }

SampleWaves ==
    { [amplitude |-> a, phase |-> 0, n |-> q[1] * FP, l |-> q[2] * FP,
       m |-> q[3] * FP, translation |-> 0, particle |-> tag]
      : a \in SampleAmplitudes, q \in SampleNumbers, tag \in SampleTags }

SampleWaveLists ==
    { <<w>> : w \in SampleWaves } \cup { <<w1, w2>> : w1 \in SampleWaves, w2 \in SampleWaves }

\* the wave list with the particle tags of tags
Retagged(ws, tags) == [i \in 1..Len(ws) |-> [ws[i] EXCEPT !.particle = tags[i]]]

InitShader ==
    /\ pc = "start"
    /\ env = ZeroEnv
    /\ prog = ZeroProgram
    /\ rot = <<0, 0>>
    /\ prev_delta = <<0, 0>>
    /\ gl = NoGl
    /\ frames = 0
    /\ last = NoLast
    /\ wf = NoWf
    /\ sh \in { [stage |-> "input", waves |-> ws, other |-> Retagged(ws, tags)]
                : ws \in SampleWaveLists, tags \in [1..Program_maxWaves -> SampleTags] }

\* the source of the program createVolumeShader made on an empty GL state
SourceOf(c) == (CHOOSE q \in c.gl.programs : q.id = c.shd.prog).src

\* createVolumeShader(40, false, 0, 0, waves, wave_count), for both lists
AssembleShader ==
    /\ sh.stage = "input"
    /\ \E a \in {createVolumeShader(NoGl, 40, FALSE, 0, 0, sh.waves)},
          b \in {createVolumeShader(NoGl, 40, FALSE, 0, 0, sh.other)} :
         /\ a.ok /\ b.ok
         /\ sh' = [stage |-> "compiled", waves |-> sh.waves, other |-> sh.other,
                   src |-> SourceOf(a), srcOther |-> SourceOf(b)]
    /\ UNCHANGED <<pc, env, prog, rot, prev_delta, gl, frames, last, wf>>

SpecShader == InitShader /\ [][AssembleShader]_vars

(***************************************************************************)
(* One run of main() of the generated fragment program                     *)
(***************************************************************************)
\* a product of two floats
fmul(a, b) ==
    LET x == Abs(a)
        y == Abs(b)
        v == (x \div 1000) * (y \div 1000)
             + ((x \div 1000) * (y % 1000) + (x % 1000) * (y \div 1000)) \div 1000
             + ((x % 1000) * (y % 1000)) \div FP
    IN  IF (a < 0) = (b < 0) THEN v ELSE -v

\* float dist= u_rayLength*float(SAMPLE_COUNT - i - 1)/float(SAMPLE_COUNT), as
\* the fraction <<numerator, denominator>>
dist_towardsFar(u_rayLength, SAMPLE_COUNT, i) ==
    << u_rayLength * i, SAMPLE_COUNT >>

dist(u_rayLength, SAMPLE_COUNT, i) ==
    << u_rayLength * (SAMPLE_COUNT - i - 1), SAMPLE_COUNT >>

\* float total_amplitude= total_real*total_real + total_imag*total_imag
total_amplitude(t) == fmul(t[1], t[1]) + fmul(t[2], t[2])

\* float P= total_amplitude*total_amplitude; if (P < CUTOFF) P= 0
P(src, t) ==
    LET p0 == fmul(total_amplitude(t), total_amplitude(t))
    IN  IF p0 < src.CUTOFF THEN 0 ELSE p0

\* normalize(vec3(0.5 - 0.5*cos(phase), 0.2, 0.5 + 0.5*sin(phase))) with
\* phase= atan2(total_imag, total_real), for totals on the axes
complex_color(t) ==
    CASE t[2] = 0 /\ t[1] > 0 -> << 0, 371391, 928477 >>
      [] t[2] = 0 /\ t[1] < 0 -> << 880451, 176090, 440225 >>
      [] t[1] = 0 /\ t[2] > 0 -> << 440225, 176090, 880451 >>
      [] t[1] = 0 /\ t[2] < 0 -> << 928477, 371391, 0 >>

\* vec3 emission: P times the complex-phase colour or times u_color; with
\* P = 0 it is zero whatever the phase of a zero total is
emission(src, u_color, t) ==
    LET c == IF src.COMPLEX_COLOR = 1 THEN complex_color(t) ELSE u_color
    IN  IF P(src, t) = 0 THEN << 0, 0, 0 >>
        ELSE [k \in 1..3 |-> fmul(P(src, t), c[k])]

\* intensity= intensity + (emission - intensity*absorption)*dl;
\* intensity= max(vec3(0.0, 0.0, 0.0), intensity)
accumulate(src, intensity, e, absorption, dl) ==
    [k \in 1..3 |->
        LET v == intensity[k] + fmul(e[k] - fmul(intensity[k], absorption), dl)
        IN  IF v < 0 THEN 0 ELSE v]

\* SAMPLE_COUNT of the Samples slider, u_rayLength= prog.distance*2.0
SampleCounts == { 5, 6 }
RayLengths == { 2 * (FP \div 5), 2 * 6 * FP }
SampleColors == { << FP, 600000, 400000 >>, << 0, 0, 2 * FP >> }
\* <<total_real, total_imag>> that CALC_TOTAL_WAVEFUNC can leave at a sample
SampleTotals == { << 0, 0 >>, << FP, 0 >>, << 0, -1189207 >> }
\* rand(v_uv.xy*u_time)*0.015
SampleNoise == { 0, 14999 }

InitMarch ==
    /\ pc = "start"
    /\ env = ZeroEnv
    /\ prog = ZeroProgram
    /\ rot = <<0, 0>>
    /\ prev_delta = <<0, 0>>
    /\ gl = NoGl
    /\ frames = 0
    /\ last = NoLast
    /\ wf = NoWf
    /\ sh \in { [stage |-> "input",
                 src |-> VolumeSource(n, cc, a, c, init(NoGl, ZeroProgram, <<640, 480>>).prog.waves),
                 u_rayLength |-> len, u_color |-> col]
                : n \in SampleCounts, cc \in BOOLEAN, a \in {0, FP},
                  c \in {0, (15 * FP) \div 100}, len \in RayLengths,
                  col \in SampleColors }

\* main() up to its loop
FragMain ==
    /\ sh.stage = "input"
    /\ sh' = [stage |-> "loop", src |-> sh.src, u_rayLength |-> sh.u_rayLength,
              u_color |-> sh.u_color,
              intensity |-> << 0, 0, 0 >>, last_P |-> 0,
              dl |-> sh.u_rayLength \div sh.src.SAMPLE_COUNT,
              i |-> 0, visited |-> << >>, clamped |-> FALSE]
    /\ UNCHANGED <<pc, env, prog, rot, prev_delta, gl, frames, last, wf>>

\* one iteration of for (int i= 0; i < SAMPLE_COUNT; ++i)
FragSample ==
    /\ sh.stage = "loop"
    /\ sh.i < sh.src.SAMPLE_COUNT
    /\ \E t \in SampleTotals :
         LET e == emission(sh.src, sh.u_color, t)
             absorption == fmul(P(sh.src, t), sh.src.ABSORPTION_MUL)
         IN  sh' = [sh EXCEPT
                      !.visited = Append(@, dist(sh.u_rayLength, sh.src.SAMPLE_COUNT, sh.i)),
                      !.intensity = accumulate(sh.src, @, e, absorption, sh.dl),
                      !.clamped = \E k \in 1..3 :
                          sh.intensity[k] + fmul(e[k] - fmul(sh.intensity[k], absorption), sh.dl) < 0,
                      !.last_P = P(sh.src, t),
                      !.i = @ + 1]
    /\ UNCHANGED <<pc, env, prog, rot, prev_delta, gl, frames, last, wf>>

\* main() after its loop: the noise and gl_FragColor
FragOut ==
    /\ sh.stage = "loop"
    /\ sh.i = sh.src.SAMPLE_COUNT
    /\ \E r \in SampleNoise :
         sh' = [sh EXCEPT !.stage = "out",
                          !.intensity = [k \in 1..3 |-> @[k] + r]]
    /\ UNCHANGED <<pc, env, prog, rot, prev_delta, gl, frames, last, wf>>

NextMarch == FragMain \/ FragSample \/ FragOut

SpecMarch == InitMarch /\ [][NextMarch]_vars

(***************************************************************************)
(* The program with a caller that adds waves between frames                *)
(***************************************************************************)
\* addWave(prog), called again after init()
AddWaveCall ==
    /\ pc = "loop"
    /\ \E r \in {addWave(prog)} :
         /\ prog' = r.prog
         /\ pc' = IF r.ok THEN "loop" ELSE "aborted"
         /\ last' = [NoLast EXCEPT !.op = "addWave", !.ok = r.ok,
                                   !.progBefore = prog]
    /\ UNCHANGED <<env, rot, prev_delta, gl, frames, wf, sh>>

NextAdd == InitProg \/ EnvUpdate \/ Frame \/ Quit \/ AddWaveCall

SpecAdd == Init /\ [][NextAdd]_vars

(***************************************************************************)
(* Properties                                                              *)
(***************************************************************************)
Sliders == 1..Len(prog.sliders)

\* the condition of frame() for recompiling on account of slider i, on the
\* inputs of the frame and the value the slider had before its edit
MustRecompile(i) ==
    /\ prog.sliders[i].recompile
    /\ pointInside(i - 1, env.anchorPos)
    /\ env.lmbDown
    /\ i \in DOMAIN last.old
    /\ coordToValue(prog.sliders[i], env.cursorPos[1]) # last.old[i]

\* C1: createVolumeShader is invoked exactly once during init; in a frame it
\* is invoked for a slider exactly when the slider is recompile-flagged, the
\* anchor is inside it, the button is held and the computed value differs from
\* the value stored before the edit; no other slider causes an invocation and
\* a frame without such a slider invokes it zero times.
C1_RecompileIffFlaggedChange ==
    /\ last.op = "init" /\ last.ok => gl.compiles = 1
    /\ last.op = "frame" =>
          /\ \A i \in Sliders : i \in last.compiledFor <=> MustRecompile(i)
          /\ \A i \in Sliders : ~prog.sliders[i].recompile => i \notin last.compiledFor
          /\ gl.compiles - last.glBefore.compiles
                = Cardinality({i \in Sliders : MustRecompile(i)})

\* a frame that recompiled after an edit of a flagged slider
C1_Witness ==
    /\ last.op = "frame"
    /\ gl.compiles = last.glBefore.compiles + 1
    /\ \E i \in last.compiledFor : prog.sliders[i].recompile

\* C2: after an edit by frame() through coordToValue the bound value lies in
\* [min, max] of the slider and is a multiple of 10^-decimals.
C2_EditClampedAndRounded ==
    last.op = "frame" =>
        \A i \in last.edited :
            LET s == prog.sliders[i]
                v == Deref(prog, s.value)
            IN  /\ s.min <= v
                /\ v <= s.max
                /\ v % Pow10(6 - s.decimals) = 0

\* an edit whose raw value lay above max, on the slider whose max (tau) is
\* no multiple of its precision
C2_Witness ==
    /\ last.op = "frame"
    /\ \E i \in last.edited :
          LET s == prog.sliders[i]
          IN  /\ s.title = "Complex phase"
              /\ coordToValue_noClamp(s, env.cursorPos[1]) > s.max
              /\ Deref(prog, s.value) = (tau \div 1000) * 1000

\* C3: from the end of init until quit exactly one volume program is live at
\* every frame boundary and it is the one in prog.shader; a recompilation
\* destroys the previous one before it creates the next (never two at once);
\* quit destroys the last one; none is destroyed twice or left after quit.
C3_OneVolumeProgram ==
    /\ pc \in {"loop", "frame"} =>
          /\ Cardinality(LiveVolume(gl)) = 1
          /\ \A q \in LiveVolume(gl) : q.id = prog.shader.prog
    /\ gl.peakVolume <= 1
    /\ gl.errors = {}
    /\ pc = "done" => LiveVolume(gl) = {}
    /\ Cardinality(LiveVolume(gl)) <= 1

\* quit after a frame that recompiled
C3_Witness ==
    /\ pc = "done"
    /\ gl.compiles >= 2
    /\ gl.programs = {}

\* the configuration frame() asks of the render target
Requested == << VolumeReso(env.winSize, prog.resoMul), prog.filtering * 2 > FP >>

\* C4: in every frame the render target is destroyed and recreated exactly
\* once if the requested configuration differs from the stored one and not at
\* all if it is equal; at draw pass A the stored configuration is the requested one.
C4_FboReconciled ==
    last.op = "frame" /\ last.ok =>
        LET stored == << last.progBefore.fbo.reso, last.progBefore.fbo.filtering >>
            n == IF Requested # stored THEN 1 ELSE 0
        IN  /\ gl.nextFbo - last.glBefore.nextFbo = n
            /\ gl.fboDestroyed - last.glBefore.fboDestroyed = n
            /\ << last.drawA.reso, last.drawA.filtering >> = Requested
            /\ last.drawA.fbo \in gl.fbos
            /\ Cardinality(gl.fbos) = 1

\* a frame that recreated the target because only the filter changed
C4_Witness ==
    /\ last.op = "frame"
    /\ gl.nextFbo = last.glBefore.nextFbo + 1
    /\ last.progBefore.fbo.reso = Requested[1]
    /\ last.progBefore.fbo.filtering # Requested[2]

\* the numbers the formula compiler clamped to
Clamped == wf.f.amplitude

\* C5: for every n in 1..12, l in 0..11, m in -11..11 the clamp of
\* hydrogenWaveFuncStr gives n > 0, 0 <= l <= n - 1 and |m| <= l; none of its
\* assertions fails and the clamped numbers pass every assertion of createHWaveFunc.
C5_ClampMeetsContract ==
    /\ wf.stage \in {"compiled", "created"} =>
          /\ wf.f.ok
          /\ Clamped.n > 0
          /\ 0 <= Clamped.l /\ Clamped.l <= Clamped.n - 1
          /\ Abs(Clamped.m) <= Clamped.l
          /\ createHWaveFunc_asserts(Clamped.n, Clamped.l, Clamped.m)
    /\ wf.stage = "created" => wf.w.ok

\* numbers where both l and m had to be clamped, through createHWaveFunc
C5_Witness ==
    /\ wf.stage = "created"
    /\ wf.l > wf.n - 1
    /\ wf.m < -wf.l
    /\ Clamped.l = wf.n - 1
    /\ Clamped.m = -Clamped.l
    /\ wf.w.ok

\* the exponent of a generated term
TermExp(term) == IF term.pow = <<>> THEN 0 ELSE term.pow[1].exp

\* the polynomial a generated sum stands for, as its coefficients; zero is the
\* coefficient of a power without a term
PolyOf(terms, zero) ==
    [i \in PolyIndex |->
        IF \E k \in 1..Len(terms) : TermExp(terms[k]) = i
        THEN terms[CHOOSE k \in 1..Len(terms) : TermExp(terms[k]) = i].coef
        ELSE zero]

\* factor*pow(abs(x), k) at x
EvalPowTerm(term, x) ==
    (IF term.factor = "sign" THEN Sign(x) ELSE 1) * IntPow(Abs(x), term.exp)

\* pow(x, e) for any integer e, as a fraction (denominator 0: infinite)
RatPow(x, e) ==
    IF e >= 0 THEN << IntPow(x, e), 1 >>
    ELSE << IntPow(Sign(x), -e), IntPow(Abs(x), -e) >>

\* the generated text of a number stands for num/den within the digits printed
SameUpToPrinting(f, num, den) ==
    LET scaled == num * Pow10(6 - f.e)
        d == f.digits * den - scaled
    IN  2 * Abs(d) <= den

\* C6: for valid n, l, m (negative m included) value() and the generated
\* expression are the same product of factors: the same normalization, the same
\* exp(-rho/2)*rho^l with rho = 2r/(n*a0), the same Laguerre and angular sums,
\* sin(theta) raised to |m| in both, and the same phase m*phi + phase.
C6_SameFactors ==
    wf.stage = "created" /\ wf.w.ok =>
        LET v == value(wf.w)
            s == wf.str
        IN  /\ s.C.normalization = v.C
            /\ SameUpToPrinting(s.E.rho, v.E.rho[1], v.E.rho[2])
            /\ s.E.exp = v.E.exp
            /\ PolyOf(s.L, <<0, 1>>) = v.L
            /\ \A k \in 1..Len(s.L) : s.L[k].pow # <<>> => s.L[k].pow[1].base = s.E.rho
            /\ PolyOf(s.Y, 0) = v.Y
            /\ \A k \in 1..Len(s.Y) :
                  s.Y[k].pow # <<>> =>
                      EvalPowTerm(s.Y[k].pow[1], wf.x) = IntPow(wf.x, TermExp(s.Y[k]))
            /\ v.sinExp = Abs(wf.w.m)
            /\ (IF s.sin = <<>> THEN << 1, 1 >> ELSE << EvalPowTerm(s.sin[1], wf.x), 1 >>)
                  = RatPow(wf.x, v.sinExp)
            /\ wf.f.phase_str = v.phase

\* the power terms of a generated amplitude expression
PowTerms(s) ==
    { s.sin[k] : k \in 1..Len(s.sin) }
    \cup { s.Y[k].pow[1] : k \in { j \in 1..Len(s.Y) : s.Y[j].pow # <<>> } }

\* C10: for every power term written by hydrogenWaveFuncStr (sin_theta to the
\* |m| for m # 0, cos_theta to the i for every nonzero angular coefficient with
\* i >= 1) and every base x, negative, zero or positive, the written factor
\* times pow(abs(x), k) is x^k; the factor is sign(x) exactly when k is odd.
C10_SignRestoresPower ==
    wf.stage \in {"compiled", "created"} /\ wf.f.ok =>
        \A term \in PowTerms(wf.str) :
            /\ term.exp >= 1
            /\ term.factor = "sign" <=> term.exp % 2 = 1
            /\ EvalPowTerm(term, wf.x) = IntPow(wf.x, term.exp)

\* a negative base under an odd power of sin_theta and of cos_theta
C10_Witness ==
    /\ wf.stage = "compiled"
    /\ wf.x < 0
    /\ \E term \in PowTerms(wf.str) :
          term.base = "sin_theta" /\ term.exp = 3 /\ EvalPowTerm(term, wf.x) = -8
    /\ \E term \in PowTerms(wf.str) :
          term.base = "cos_theta" /\ term.exp % 2 = 1 /\ term.factor = "sign"

\* the waves with statements in a generated CALC_TOTAL_WAVEFUNC (counted from 0)
Contributing(src) ==
    { src.CALC_TOTAL_WAVEFUNC[k].wave : k \in 1..Len(src.CALC_TOTAL_WAVEFUNC) }

InitWaves == init(NoGl, ZeroProgram, <<640, 480>>).prog.waves

\* C9: a wave has statements in CALC_TOTAL_WAVEFUNC exactly if its amplitude
\* is not below 0.001; right after init exactly the first wave contributes.
C9_ThresholdSkipsWave ==
    sh.stage = "compiled" =>
        /\ \A i \in 1..Len(sh.waves) :
              (i - 1) \in Contributing(sh.src) <=> ~(sh.waves[i].amplitude * 1000 < FP)
        /\ Len(sh.src.CALC_TOTAL_WAVEFUNC) = Cardinality(Contributing(sh.src))
        /\ sh.waves = InitWaves => Contributing(sh.src) = {0}

\* a wave at exactly 0.001 that contributes next to one just below that does not
C9_Witness ==
    /\ sh.stage = "compiled"
    /\ Len(sh.waves) = 2
    /\ sh.waves[1].amplitude = 999
    /\ sh.waves[2].amplitude = 1000
    /\ Contributing(sh.src) = {1}

\* C8: an addWave beyond the maximum wave count is rejected and changes
\* nothing; always waves.size <= 2 and sliders.size <= 32, and once init has
\* completed sliders.size = 11 + 6*waves.size.
C8_AddBounded ==
    /\ Len(prog.waves) <= Program_maxWaves
    /\ Len(prog.sliders) <= Program_maxSliders
    /\ pc # "start" /\ ~(last.op = "init" /\ ~last.ok) =>
          Len(prog.sliders) = 11 + 6 * Len(prog.waves)
    /\ last.op = "addWave" =>
          /\ Len(last.progBefore.waves) = Program_maxWaves => ~last.ok
          /\ ~last.ok => prog = last.progBefore

\* an addWave rejected after a frame that edited the second wave
C8_Witness ==
    /\ last.op = "addWave"
    /\ ~last.ok
    /\ frames = 1
    /\ prog.waves[2].amplitude > 0
    /\ Len(prog.waves) = 2
    /\ Len(prog.sliders) = 23

\* a slider contains the pointer anchor of the frame being run
AnchorOnSlider == \E i \in Sliders : pointInside(i - 1, env.anchorPos)

\* C11: a step changes rot or the smoothed delta only if it is a frame with
\* the button held and no slider containing the anchor (so a frame with a
\* slider under the anchor, or with the button released, leaves both as they
\* were), and rot.y always lies within [-tau/4, +tau/4].
C11_RotationGuardedAndClamped ==
    /\ [](-(tau \div 4) <= rot[2] /\ rot[2] <= tau \div 4)
    /\ [][ (rot' # rot \/ prev_delta' # prev_delta) =>
              (pc = "frame" /\ env.lmbDown /\ ~AnchorOnSlider) ]_vars

\* a frame off the sliders with the button held whose drag took rot.y beyond
\* the quarter turn, left at the quarter turn
C11_Witness ==
    /\ last.op = "frame"
    /\ env.lmbDown
    /\ ~last.activity
    /\ rot[2] = tau \div 4
    /\ rot[2] < 2 * prev_delta[2]

\* main() is in its loop or past it; visited holds the samples in loop order
Marching == sh.stage \in {"loop", "out"}

\* C12, as stated: the distance from v_pos is non-decreasing in the loop index
\* (front-to-back), consecutive samples are one dl apart, and intensity is
\* non-negative after every step.
C12_FrontToBack ==
    Marching =>
        /\ \A j \in 1..Len(sh.visited) : \A k \in j..Len(sh.visited) :
              sh.visited[j][1] <= sh.visited[k][1]
        /\ \A j \in 1..(Len(sh.visited) - 1) :
              Abs(sh.visited[j + 1][1] - sh.visited[j][1]) = sh.u_rayLength
        /\ \A k \in 1..3 : sh.intensity[k] >= 0

\* C12, amended: the loop visits its samples back-to-front: sample i lies
\* u_rayLength*(SAMPLE_COUNT - i - 1)/SAMPLE_COUNT from v_pos, which is
\* non-increasing in the loop index and reaches v_pos itself at the last
\* sample; consecutive samples are exactly dl = u_rayLength/SAMPLE_COUNT apart;
\* intensity is non-negative after every step.
C12_BackToFront ==
    Marching =>
        /\ Len(sh.visited) = sh.i
        /\ \A j \in 1..Len(sh.visited) :
              /\ sh.visited[j][2] = sh.src.SAMPLE_COUNT
              /\ sh.visited[j][1] >= 0
        /\ \A j \in 1..Len(sh.visited) : \A k \in j..Len(sh.visited) :
              sh.visited[j][1] >= sh.visited[k][1]
        /\ \A j \in 1..(Len(sh.visited) - 1) :
              sh.visited[j][1] - sh.visited[j + 1][1] = sh.u_rayLength
        /\ sh.i = sh.src.SAMPLE_COUNT => sh.visited[sh.i][1] = 0
        /\ \A k \in 1..3 : sh.intensity[k] >= 0

\* a finished loop whose last step took a channel below zero before the max
C12_Witness ==
    /\ sh.stage = "loop"
    /\ sh.i = sh.src.SAMPLE_COUNT
    /\ sh.clamped
    /\ sh.visited[1][1] > sh.visited[sh.i][1]
    /\ \E k \in 1..3 : sh.intensity[k] > 0

\* the fields createVolumeShader reads: of prog itself and of every wave
ShaderInputs ==
    { [wave |-> 0, field |-> f] : f \in {"sampleCount", "complexColor", "absorption", "cutoff"} }
    \cup { [wave |-> k, field |-> f] : k \in 1..Len(prog.waves),
            f \in {"amplitude", "phase", "n", "l", "m", "translation"} }

\* the source createVolumeShader would make of the present values of prog
CurrentSource ==
    VolumeSource(ToInt(prog.sampleCount), prog.complexColor # 0,
                 prog.absorption, prog.cutoff, prog.waves)

\* C13: the program draw pass A of a frame uses is live and was compiled from
\* the values sampleCount, complexColor, absorption, cutoff and the waves hold
\* at that draw; the same holds after init and between frames (envUpdate
\* touches neither prog nor the GL objects), and every slider bound to one of
\* these fields is recompile-flagged.
C13_DrawnProgramCurrent ==
    /\ pc = "loop" =>
          \E q \in gl.programs :
              /\ q.id = prog.shader.prog
              /\ q.kind = "volume"
              /\ q.src = CurrentSource
    /\ last.op = "frame" /\ last.ok => last.drawA.shader = prog.shader.prog
    /\ \A inputs \in {ShaderInputs} : \A i \in Sliders :
          prog.sliders[i].value \in inputs => prog.sliders[i].recompile

\* a frame that drew right after an edit of a shader input, with a program
\* whose source is not the one init compiled
C13_Witness ==
    /\ last.op = "frame"
    /\ last.ok
    /\ \E i \in last.edited :
          /\ prog.sliders[i].value \in ShaderInputs
          /\ last.new[i] # last.old[i]
    /\ \E q \in gl.programs :
          /\ q.id = last.drawA.shader
          /\ q.src = CurrentSource
          /\ q.src # VolumeSource(40, FALSE, 0, 0, InitWaves)

====
